---- MODULE Spec2Model ----
(***************************************************************************)
(* bevy_restrict: facades over the Bevy command queue (src/lib.rs).        *)
(*                                                                         *)
(* Every facade only pushes commands on the queue of the system it runs    *)
(* in; the host applies the queue at the end of the schedule.  The model   *)
(* keeps the ECS world (entities, components, hierarchy, resources, the    *)
(* state machine), the command queue and the host's position in a frame.   *)
(* A schedule run holds one command-queuing system, then the flush.        *)
(***************************************************************************)
EXTENDS Integers, Sequences, FiniteSets, TLC

(* ------------------------------ bounds --------------------------------- *)
\* entities alive when the run starts
InitEntities == 3
\* entities that EntitySpawner calls may add during a run
MaxSpawn == 1
\* resource values range over 0..MaxVal
MaxVal == 2

(* --------------------------- instantiation ----------------------------- *)
\* the States enum S of the application
States == {"Menu", "Game", "Over"}
\* state_resource_plugin_given(GivenState, GivenValue) binds resource RGiven
GivenState == "Game"
GivenValue == 1
\* state_resource_plugin_from_world(WorldState) binds resource RWorld
WorldState == "Menu"
BoundResources == {"RGiven", "RWorld"}
BoundState(r) == IF r = "RGiven" THEN GivenState ELSE WorldState
\* one more resource, which RWorld's FromWorld implementation reads
Resources == BoundResources \cup {"Ambient"}
Values == 0..MaxVal

\* component types: the marker C of entity_cleanup_system<C, Q> and of
\* EntitySpawner<C>, the component F tested by the filter Q = With<F>, and
\* one more component B.  C carries a value, F and B are zero-sized.
Components == {"C", "F", "B"}
CValues == {0, 1}
CDefault == <<"C", 0>>
CompF == <<"F", 0>>
CompB == <<"B", 0>>
\* the bundles handed to spawn_with and spawn_default_with; the last one
\* repeats the component type of C
UserBundles == {<<>>, <<CompF>>, <<CompF, CompB>>, <<<<"C", 1>>>>}

MaxEntities == InitEntities + MaxSpawn
Entities == 1..MaxEntities

VARIABLES
    state,       \* State<S>: the current state
    nextState,   \* NextState<S>: {} or {s}
    started,     \* run_enter_schedule has run (run_once)
    phase,       \* where the host's frame is
    exited,      \* the state apply_state_transition is leaving: {} or {s}
    res,         \* resource type -> {} (absent) or {value}
    alive,       \* entities in the world
    reserved,    \* entity ids handed out by Commands::spawn, not yet flushed
    spawned,     \* number of entity ids handed out by Commands::spawn
    comps,       \* entity -> set of <<component type, value>>
    parent,      \* entity -> Parent component: {} or {p}
    children,    \* entity -> Children component
    queue,       \* the command queue
    panicked,    \* the host has panicked; the app is gone
    ran,         \* history: the system that queued commands since the last flush
    flushed,     \* history: the flush that produced this state, {} otherwise
    dropped,     \* history: resource type -> the value its last removed instance held
    requested    \* history: entity -> the components an EntitySpawner call asked for

vars == <<state, nextState, started, phase, exited, res, alive, reserved,
          spawned, comps, parent, children, queue, panicked, ran, flushed,
          dropped, requested>>

(* ------------------------------ the world ------------------------------ *)
Cmd(op, e, b, r, v) == [op |-> op, e |-> e, b |-> b, r |-> r, v |-> v]

\* the World that commands act on
World == [res |-> res, alive |-> alive, reserved |-> reserved, comps |-> comps,
          parent |-> parent, children |-> children, panicked |-> panicked]

\* a tuple bundle (a, b) lists the components of a, then those of b
TupleBundle(a, b) == a \o b

BundleTypes(b) == {b[i][1] : i \in DOMAIN b}
BundleSet(b) == {b[i] : i \in DOMAIN b}
HasDuplicates(b) == \E i, j \in DOMAIN b : i # j /\ b[i][1] = b[j][1]
Types(cs) == {c[1] : c \in cs}

\* Query<Entity, With<..>>: the entities in the world holding all of `with`
Query(w, with) == {e \in w.alive : with \subseteq Types(w.comps[e])}
\* Query<Entity, (With<C>, Q)> with Q = With<F>
CleanupQuery(w) == Query(w, {"C", "F"})

\* the entities reached from e through Children components
RECURSIVE Subtree(_, _)
Subtree(w, e) ==
    {e} \cup UNION {Subtree(w, k) : k \in IF e \in w.alive THEN w.children[e] ELSE {}}
Descendants(w, e) == Subtree(w, e) \ {e}

\* RWorld::from_world: reads the ambient resource
FromWorld(w) == w.res["Ambient"]

\* entity.insert(bundle): the host panics on a bundle with a repeated
\* component type, and on an entity that no longer exists
InsertBundle(w, e, b) ==
    IF HasDuplicates(b) \/ e \notin w.alive
    THEN [w EXCEPT !.panicked = TRUE]
    ELSE [w EXCEPT !.comps[e] =
            {c \in w.comps[e] : c[1] \notin BundleTypes(b)} \cup BundleSet(b)]

\* World::despawn: drops the entity with all its components; nothing else
\* is touched, a missing entity is only logged
WorldDespawn(w, e) ==
    IF e \notin w.alive THEN w
    ELSE [w EXCEPT !.alive = @ \ {e},
                   !.comps[e] = {},
                   !.parent[e] = {},
                   !.children[e] = {}]

RECURSIVE DespawnInner(_, _)
RECURSIVE DespawnEach(_, _)
\* despawn the entities listed in the Children component, then the entity
DespawnInner(w, e) ==
    LET kids == IF e \in w.alive THEN w.children[e] ELSE {}
        w1 == IF e \in w.alive THEN [w EXCEPT !.children[e] = {}] ELSE w
    IN WorldDespawn(DespawnEach(w1, kids), e)

DespawnEach(w, S) ==
    IF S = {} THEN w
    ELSE LET k == CHOOSE x \in S : TRUE
         IN DespawnEach(DespawnInner(w, k), S \ {k})

\* despawn_recursive: the parent forgets the entity, then the subtree goes
DespawnRecursive(w, e) ==
    LET ps == IF e \in w.alive THEN w.parent[e] \cap w.alive ELSE {}
        w1 == [w EXCEPT !.children =
                 [x \in DOMAIN @ |-> IF x \in ps THEN @[x] \ {e} ELSE @[x]]]
    IN DespawnInner(w1, e)

ApplyCommand(w, c) ==
    CASE c.op = "Insert" -> InsertBundle(w, c.e, c.b)
      [] c.op = "Despawn" -> WorldDespawn(w, c.e)
      [] c.op = "DespawnRecursive" -> DespawnRecursive(w, c.e)
      [] c.op = "InsertResource" -> [w EXCEPT !.res[c.r] = {c.v}]
      [] c.op = "InitResource" ->
            IF w.res[c.r] = {} THEN [w EXCEPT !.res[c.r] = FromWorld(w)] ELSE w
      [] c.op = "RemoveResource" -> [w EXCEPT !.res[c.r] = {}]

\* the queue is applied in issuance order; a panic ends the application
RECURSIVE ApplyQueue(_, _)
ApplyQueue(w, q) ==
    IF q = <<>> \/ w.panicked THEN w
    ELSE ApplyQueue(ApplyCommand(w, Head(q)), Tail(q))

\* a flush first places the reserved entities in the world, without components
Flush(w, q) ==
    ApplyQueue([w EXCEPT !.alive = @ \cup w.reserved, !.reserved = {}], q)

(* ----------------------- the facades of lib.rs ------------------------- *)
\* each takes the command queue of the running system and returns it with
\* the commands it pushed

\* mutant: removes another resource type than the one asked for
Mut_remove_other(q, r) == Append(q, Cmd("RemoveResource", 0, <<>>, "Ambient", 0))

ResourceHandle_remove(q, r) == Append(q, Cmd("RemoveResource", 0, <<>>, r, 0))

\* mutant: inserts a default value, whether or not the resource exists
Mut_init_overwrites(q, r) == Append(q, Cmd("InsertResource", 0, <<>>, r, 0))

ResourceHandle_init(q, r) == Append(q, Cmd("InitResource", 0, <<>>, r, 0))

\* mutant: inserts only when the resource is absent
Mut_insert_if_absent(q, r, v) == Append(q, Cmd("InitResource", 0, <<>>, r, 0))

ResourceHandle_insert(q, r, v) == Append(q, Cmd("InsertResource", 0, <<>>, r, v))

\* mutant: the cleanup system forgets to call remove
Mut_cleanup_skips(q, r) == q

resource_cleanup_system(q, r) == ResourceHandle_remove(q, r)

\* the closure of state_resource_plugin_given: inserts a clone of the value
insert_resource_system_given(q) == ResourceHandle_insert(q, "RGiven", GivenValue)

\* mutant: the closure forgets to call init
Mut_from_world_skips(q) == q

\* the closure of state_resource_plugin_from_world
insert_resource_system_from_world(q) == ResourceHandle_init(q, "RWorld")

\* the systems the two plugins add to OnEnter(s) and to OnExit(s)
OnEnterSchedule(s, q) ==
    LET q1 == IF s = GivenState THEN insert_resource_system_given(q) ELSE q
    IN IF s = WorldState THEN insert_resource_system_from_world(q1) ELSE q1

OnExitSchedule(s, q) ==
    LET q1 == IF s = GivenState THEN resource_cleanup_system(q, "RGiven") ELSE q
    IN IF s = WorldState THEN resource_cleanup_system(q1, "RWorld") ELSE q1

\* mutant: despawn takes the descendants along
Mut_despawn_is_recursive(q, e) == Append(q, Cmd("DespawnRecursive", e, <<>>, "", 0))

EntityDespawner_despawn(q, e) == Append(q, Cmd("Despawn", e, <<>>, "", 0))

EntityDespawner_despawn_recursive(q, e) ==
    Append(q, Cmd("DespawnRecursive", e, <<>>, "", 0))

\* mutant: only the first matched entity is despawned
Mut_cleanup_first_only(q, matched) ==
    IF matched = <<>> THEN q
    ELSE Append(q, Cmd("DespawnRecursive", Head(matched), <<>>, "", 0))

\* mutant: the cleanup despawns without the descendants
RECURSIVE Mut_cleanup_not_recursive(_, _)
Mut_cleanup_not_recursive(q, matched) ==
    IF matched = <<>> THEN q
    ELSE Mut_cleanup_not_recursive(
            Append(q, Cmd("Despawn", Head(matched), <<>>, "", 0)), Tail(matched))

\* query.for_each over the matched entities, in the order the query yields
RECURSIVE entity_cleanup_system(_, _)
entity_cleanup_system(q, matched) ==
    IF matched = <<>> THEN q
    ELSE entity_cleanup_system(
            EntityDespawner_despawn_recursive(q, Head(matched)), Tail(matched))

\* Commands::spawn(bundle) on the entity id `id` it reserved
CommandsSpawn(q, id, bundle) == Append(q, Cmd("Insert", id, bundle, "", 0))

\* mutant: the supplied bundle is dropped
Mut_default_with_drops_bundle(q, id, bundle) ==
    Append(q, Cmd("Insert", id, <<CDefault>>, "", 0))

EntitySpawner_spawn_default_with(q, id, bundle) ==
    CommandsSpawn(q, id, TupleBundle(<<CDefault>>, bundle))

EntitySpawner_spawn_default(q, id) == CommandsSpawn(q, id, <<CDefault>>)

spawn_default_system(q, id) == EntitySpawner_spawn_default(q, id)

\* mutant: the entity bundle is dropped
Mut_spawn_with_drops_entity(q, id, entity, bundle) ==
    Append(q, Cmd("Insert", id, bundle, "", 0))

EntitySpawner_spawn_with(q, id, entity, bundle) ==
    CommandsSpawn(q, id, TupleBundle(<<entity>>, bundle))

EntitySpawner_spawn(q, id, entity) == CommandsSpawn(q, id, <<entity>>)

\* the orders in which a query may yield the entities of S
Orders(S) ==
    {o \in [1..Cardinality(S) -> S] : \A i, j \in DOMAIN o : i # j => o[i] # o[j]}

(* ------------------------------ the host ------------------------------- *)
Run(sys, e, c, b, r, v) == [sys |-> sys, e |-> e, c |-> c, b |-> b, r |-> r, v |-> v]

EntityVars == <<alive, reserved, spawned, comps, parent, children>>
StateVars == <<state, nextState, started, exited>>

\* the frame: StateTransition (run_enter_schedule once, then
\* apply_state_transition: OnExit, OnEnter), then Update; each schedule ends
\* with a flush.  With NextState empty apply_state_transition does nothing,
\* and the frame is back in Update.
NextPhase(p) ==
    CASE p = "OnEnterInitial" -> "StateTransition"
      [] p = "OnExit" -> "Transition"
      [] p = "OnEnter" -> "Update"
      [] p = "Update" -> IF nextState = {} THEN "Update" ELSE "StateTransition"

\* run_enter_schedule: OnEnter of the initial state, on the first frame
run_enter_schedule ==
    /\ ~panicked /\ phase = "StateTransition" /\ ~started
    /\ started' = TRUE
    /\ queue' = OnEnterSchedule(state, queue)
    /\ phase' = "OnEnterInitial"
    /\ flushed' = {}
    /\ UNCHANGED <<state, nextState, exited, res, EntityVars, panicked, ran, dropped,
                   requested>>

\* apply_state_transition: takes NextState; a different state replaces the
\* current one and the OnExit schedule of the state left runs
apply_state_transition ==
    /\ ~panicked /\ phase = "StateTransition" /\ started
    /\ nextState' = {}
    /\ IF nextState # {} /\ nextState # {state}
       THEN /\ state' = CHOOSE s \in nextState : TRUE
            /\ exited' = {state}
            /\ queue' = OnExitSchedule(state, queue)
            /\ phase' = "OnExit"
       ELSE /\ phase' = "Update"
            /\ UNCHANGED <<state, exited, queue>>
    /\ flushed' = {}
    /\ UNCHANGED <<started, res, EntityVars, panicked, ran, dropped, requested>>

\* apply_state_transition, after OnExit: the OnEnter schedule of the new state
run_on_enter ==
    /\ ~panicked /\ phase = "Transition"
    /\ queue' = OnEnterSchedule(state, queue)
    /\ phase' = "OnEnter"
    /\ flushed' = {}
    /\ UNCHANGED <<StateVars, res, EntityVars, panicked, ran, dropped, requested>>

\* the end of a schedule: the queued commands are applied to the world
ApplyDeferred ==
    /\ ~panicked /\ phase \in {"OnEnterInitial", "OnExit", "OnEnter", "Update"}
    /\ LET w == Flush(World, queue)
       IN /\ res' = w.res
          /\ alive' = w.alive
          /\ reserved' = w.reserved
          /\ comps' = w.comps
          /\ parent' = w.parent
          /\ children' = w.children
          /\ panicked' = w.panicked
          /\ dropped' = [r \in DOMAIN dropped |->
                           IF res[r] # {} /\ w.res[r] = {} THEN res[r] ELSE dropped[r]]
    /\ queue' = <<>>
    /\ ran' = {}
    /\ flushed' = {[ran |-> ran, phase |-> phase, exited |-> exited, queue |-> queue,
                    pre |-> World]}
    /\ phase' = NextPhase(phase)
    /\ exited' = IF phase = "OnEnter" THEN {} ELSE exited
    /\ UNCHANGED <<state, nextState, started, spawned, requested>>

(* --------------------------- the app's systems ------------------------- *)
InUpdate == ~panicked /\ phase = "Update" /\ started

\* a system sets NextState<S>
SetNextState(s) ==
    /\ InUpdate
    /\ nextState' = {s}
    /\ flushed' = {}
    /\ UNCHANGED <<state, started, phase, exited, res, EntityVars, queue,
                   panicked, ran, dropped, requested>>

\* a system writes a resource through ResMut
MutateResource(r, v) ==
    /\ InUpdate /\ res[r] # {} /\ res[r] # {v}
    /\ res' = [res EXCEPT ![r] = {v}]
    /\ flushed' = {}
    /\ UNCHANGED <<StateVars, phase, EntityVars, queue, panicked, ran, dropped,
                   requested>>

Queues(q, r) ==
    /\ queue' = q
    /\ ran' = {r}
    /\ flushed' = {}
    /\ UNCHANGED <<StateVars, phase, res, panicked, dropped>>

\* a system of the app calls ResourceHandle::insert
UserInsert(r, v) ==
    /\ InUpdate /\ ran = {}
    /\ Queues(ResourceHandle_insert(queue, r, v), Run("insert", 0, 0, <<>>, r, v))
    /\ UNCHANGED <<EntityVars, requested>>

\* a system of the app calls ResourceHandle::init
UserInit(r) ==
    /\ InUpdate /\ ran = {}
    /\ Queues(ResourceHandle_init(queue, r), Run("init", 0, 0, <<>>, r, 0))
    /\ UNCHANGED <<EntityVars, requested>>

\* the app schedules resource_cleanup_system<R> itself
RunResourceCleanup(r) ==
    /\ InUpdate /\ ran = {}
    /\ Queues(resource_cleanup_system(queue, r),
              Run("resource_cleanup_system", 0, 0, <<>>, r, 0))
    /\ UNCHANGED <<EntityVars, requested>>

\* the app schedules entity_cleanup_system<C, With<F>>
RunEntityCleanup ==
    /\ InUpdate /\ ran = {}
    /\ \E order \in Orders(CleanupQuery(World)) :
          Queues(entity_cleanup_system(queue, order),
                 Run("entity_cleanup_system", 0, 0, <<>>, "", 0))
    /\ UNCHANGED <<EntityVars, requested>>

\* the entity ids a system may hold: alive ones and ones despawned since
Known == (1..(InitEntities + spawned)) \ reserved

\* Commands::entity panics on an entity that does not exist
UserDespawn(e) ==
    /\ InUpdate /\ ran = {} /\ e \in Known
    /\ IF e \in alive
       THEN /\ Queues(EntityDespawner_despawn(queue, e),
                      Run("despawn", e, 0, <<>>, "", 0))
            /\ UNCHANGED <<EntityVars, requested>>
       ELSE /\ panicked' = TRUE
            /\ flushed' = {}
            /\ UNCHANGED <<StateVars, phase, res, EntityVars, queue, ran, dropped,
                            requested>>

UserDespawnRecursive(e) ==
    /\ InUpdate /\ ran = {} /\ e \in Known
    /\ IF e \in alive
       THEN /\ Queues(EntityDespawner_despawn_recursive(queue, e),
                      Run("despawn_recursive", e, 0, <<>>, "", 0))
            /\ UNCHANGED <<EntityVars, requested>>
       ELSE /\ panicked' = TRUE
            /\ flushed' = {}
            /\ UNCHANGED <<StateVars, phase, res, EntityVars, queue, ran, dropped,
                            requested>>

\* Commands::spawn reserves the next entity id at once
NextId == InitEntities + spawned + 1
Reserve(bundle) ==
    /\ InUpdate /\ ran = {} /\ spawned < MaxSpawn
    /\ reserved' = reserved \cup {NextId}
    /\ spawned' = spawned + 1
    /\ requested' = [requested EXCEPT ![NextId] = BundleSet(bundle)]
    /\ UNCHANGED <<alive, comps, parent, children>>

UserSpawn(c) ==
    /\ Reserve(<<<<"C", c>>>>)
    /\ Queues(EntitySpawner_spawn(queue, NextId, <<"C", c>>),
              Run("spawn", NextId, c, <<>>, "", 0))

UserSpawnWith(c, b) ==
    /\ Reserve(<<<<"C", c>>>> \o b)
    /\ Queues(EntitySpawner_spawn_with(queue, NextId, <<"C", c>>, b),
              Run("spawn_with", NextId, c, b, "", 0))

UserSpawnDefault ==
    /\ Reserve(<<CDefault>>)
    /\ Queues(spawn_default_system(queue, NextId),
              Run("spawn_default", NextId, 0, <<>>, "", 0))

UserSpawnDefaultWith(b) ==
    /\ Reserve(<<CDefault>> \o b)
    /\ Queues(EntitySpawner_spawn_default_with(queue, NextId, b),
              Run("spawn_default_with", NextId, 0, b, "", 0))

(* --------------------------- specifications ---------------------------- *)
NoResources == [r \in Resources |-> {}]

\* the entities above e: its parent, the parent's parent, ... (n steps)
RECURSIVE Above(_, _, _)
Above(p, S, n) ==
    IF n = 0 THEN {}
    ELSE LET up == UNION {p[x] : x \in S} IN up \cup Above(p, up, n - 1)

\* a forest over the initial entities; ids above InitEntities are not in use
HierarchyOK(p) ==
    \A e \in Entities :
        /\ p[e] \subseteq 1..InitEntities
        /\ e > InitEntities => p[e] = {}
        /\ e \notin Above(p, {e}, InitEntities)

ChildrenOf(p) == [e \in Entities |-> {k \in Entities : p[k] = {e}}]

InitQuiet ==
    /\ nextState = {} /\ exited = {}
    /\ alive = 1..InitEntities /\ reserved = {} /\ spawned = 0
    /\ queue = <<>> /\ panicked = FALSE /\ ran = {} /\ flushed = {}
    /\ dropped = [r \in BoundResources |-> {}]
    /\ requested = [e \in Entities |-> {}]

\* the chain 1 <- 2 <- ...; entity 1 carries C and F
InitChain ==
    /\ parent = [e \in Entities |-> IF 1 < e /\ e <= InitEntities THEN {e - 1} ELSE {}]
    /\ children = ChildrenOf(parent)
    /\ comps = [e \in Entities |-> IF e = 1 THEN {CDefault, CompF} ELSE {}]

\* the app before its first frame, in any initial state
InitApp ==
    /\ InitQuiet /\ InitChain
    /\ state \in States /\ started = FALSE /\ phase = "StateTransition"
    /\ \E v \in Values : res = [NoResources EXCEPT !["Ambient"] = {v}]

\* an app in its Update schedule, in a state no plugin is bound to
InitRunning ==
    /\ InitQuiet
    /\ state = "Over" /\ started = TRUE /\ phase = "Update"
    /\ res = [NoResources EXCEPT !["Ambient"] = {0}]

\* any hierarchy and any marking of the initial entities
InitDespawn ==
    /\ InitRunning
    /\ parent \in [Entities -> {{}} \cup {{x} : x \in Entities}]
    /\ HierarchyOK(parent)
    /\ children = ChildrenOf(parent)
    /\ comps \in [Entities -> SUBSET {CDefault, CompF}]
    /\ \A e \in Entities : e > InitEntities => comps[e] = {}

InitSpawn == InitRunning /\ InitChain

NextBound ==
    \/ run_enter_schedule
    \/ apply_state_transition
    \/ run_on_enter
    \/ ApplyDeferred
    \/ \E s \in States : SetNextState(s)
    \/ \E r \in Resources, v \in Values : MutateResource(r, v)

NextRes ==
    \/ NextBound
    \/ \E r \in BoundResources, v \in Values : UserInsert(r, v)
    \/ UserInit("RWorld")
    \/ \E r \in BoundResources : RunResourceCleanup(r)

NextDespawn ==
    \/ RunEntityCleanup
    \/ \E e \in Entities : UserDespawn(e)
    \/ \E e \in Entities : UserDespawnRecursive(e)
    \/ ApplyDeferred

NextSpawn ==
    \/ \E c \in CValues : UserSpawn(c)
    \/ \E c \in CValues, b \in UserBundles : UserSpawnWith(c, b)
    \/ UserSpawnDefault
    \/ \E b \in UserBundles : UserSpawnDefaultWith(b)
    \/ RunEntityCleanup
    \/ \E e \in Entities : UserDespawn(e)
    \/ ApplyDeferred

\* the two plugins alone manage RGiven and RWorld
SpecBound == InitApp /\ [][NextBound]_vars
\* systems of the app also insert, init and remove them
SpecRes == InitApp /\ [][NextRes]_vars
\* despawning in any hierarchy
SpecDespawn == InitDespawn /\ [][NextDespawn]_vars
\* spawning
SpecSpawn == InitSpawn /\ [][NextSpawn]_vars

(* ------------------------------- claims -------------------------------- *)
Entered(f) == f.phase \in {"OnEnter", "OnEnterInitial"}
RanSystem(f, sys) == \E r \in f.ran : r.sys = sys

\* the value a bound resource is created with, in the world it is created in
Fresh(r, w) == IF r = "RGiven" THEN {GivenValue} ELSE FromWorld(w)

\* C1: with only the plugins managing them, whenever no transition is in
\* progress (its commands have been applied) a bound resource exists if and
\* only if the current state is the state it is bound to; the initial state
\* counts as entered.
C1_ExistsIffInState ==
    (started /\ ~panicked /\ phase \in {"Update", "StateTransition"})
        => \A r \in BoundResources : (res[r] # {}) <=> (state = BoundState(r))

\* C1 witness: back in the bound state after the resource was removed once,
\* the other bound resource being absent
C1_Witness ==
    /\ started /\ phase = "Update" /\ state = GivenState
    /\ res["RGiven"] # {} /\ dropped["RGiven"] # {} /\ res["RWorld"] = {}

\* C2: the flush after OnEnter of the bound state leaves exactly one
\* instance, created then (the resource was absent before, and its value is
\* the constructed one, not the one held before the exit); the flush after
\* OnExit of the bound state leaves none.
C2_EnterInsertsExitRemoves ==
    \A f \in flushed, r \in BoundResources :
        /\ (Entered(f) /\ state = BoundState(r))
              => /\ f.pre.res[r] = {}
                 /\ Cardinality(res[r]) = 1
                 /\ res[r] = Fresh(r, f.pre)
        /\ (f.phase = "OnExit" /\ f.exited = {BoundState(r)}) => res[r] = {}

\* C2 witness: a re-entry, after an instance that had been mutated was removed
C2_Witness ==
    \E f \in flushed :
        /\ f.phase = "OnEnter" /\ state = WorldState
        /\ dropped["RWorld"] # {} /\ dropped["RWorld"] # res["RWorld"]
        /\ res["RWorld"] # {}

\* C3 as stated: the flush after every OnEnter of WorldState leaves RWorld
\* holding a value newly constructed from the world, whatever the world held
\* for RWorld before the entry.
C3_Original ==
    \A f \in flushed :
        (Entered(f) /\ state = WorldState) => res["RWorld"] = FromWorld(f.pre)

\* C3 as amended: on entry into WorldState, if RWorld is absent it is
\* constructed from the world; if RWorld is already present (inserted by
\* other code) the entry leaves that value as it is.
C3_InitOnlyWhenAbsent ==
    \A f \in flushed :
        (Entered(f) /\ state = WorldState)
            => IF f.pre.res["RWorld"] = {}
               THEN res["RWorld"] = FromWorld(f.pre) /\ res["RWorld"] # {}
               ELSE res["RWorld"] = f.pre.res["RWorld"]

\* C3 witness: an entry into WorldState with RWorld already present, holding
\* another value than from_world would give
C3_Witness ==
    \E f \in flushed :
        /\ Entered(f) /\ state = WorldState
        /\ f.pre.res["RWorld"] # {}
        /\ f.pre.res["RWorld"] # FromWorld(f.pre)
        /\ res["RWorld"] = f.pre.res["RWorld"]

\* C4: the flush after every OnEnter of GivenState leaves RGiven equal to
\* the value given to the plugin, whatever the world held for RGiven before.
C4_CloneOnEveryEntry ==
    \A f \in flushed :
        (Entered(f) /\ state = GivenState) => res["RGiven"] = {GivenValue}

\* C4 witness: an entry with RGiven present and different from the given
\* value, after an earlier instance had been mutated and removed
C4_Witness ==
    \E f \in flushed :
        /\ Entered(f) /\ state = GivenState
        /\ f.pre.res["RGiven"] # {} /\ f.pre.res["RGiven"] # {GivenValue}
        /\ dropped["RGiven"] # {} /\ dropped["RGiven"] # {GivenValue}
        /\ res["RGiven"] = {GivenValue}

\* C6: a run of resource_cleanup_system<R> with R absent, once flushed,
\* leaves the world as it was and raises nothing (also when OnExit runs it);
\* and from the world any run of it leaves, one more run changes nothing.
C6_RemoveAbsentIsNoOp ==
    \A f \in flushed, r \in BoundResources :
        /\ (\E x \in f.ran : x.sys = "resource_cleanup_system" /\ x.r = r)
              => /\ ~panicked
                 /\ res[r] = {}
                 /\ f.pre.res[r] = {} => World = f.pre
                 /\ Flush(World, resource_cleanup_system(<<>>, r)) = World
        /\ (f.phase = "OnExit" /\ f.exited = {BoundState(r)} /\ f.pre.res[r] = {})
              => World = f.pre

\* C6 witness: the system ran on a resource that an earlier run had removed
C6_Witness ==
    \E f \in flushed :
        /\ \E x \in f.ran : x.sys = "resource_cleanup_system" /\ x.r = "RGiven"
        /\ f.pre.res["RGiven"] = {} /\ dropped["RGiven"] # {}
        /\ World = f.pre

\* the entities a cleanup run removes: the matched ones and their subtrees
CleanupGone(w) == UNION {Subtree(w, e) : e \in CleanupQuery(w)}

\* C5: after one run of entity_cleanup_system<C, With<F>> and the flush, no
\* entity that matched (With<C>, With<F>) when it ran is left in the world,
\* in any hierarchy and in any query order, and nothing panicked.
C5_NoMatchedEntityRemains ==
    \A f \in flushed :
        RanSystem(f, "entity_cleanup_system")
            => /\ ~panicked
               /\ \A e \in CleanupQuery(f.pre) : e \notin alive
               /\ CleanupQuery(World) = {}

\* C5 witness: a matched entity was queued after a matched ancestor of it,
\* so its own despawn found it already gone
C5_Witness ==
    \E f \in flushed :
        /\ RanSystem(f, "entity_cleanup_system")
        /\ \E i, j \in DOMAIN f.queue :
              /\ i < j
              /\ f.queue[j].e \in Descendants(f.pre, f.queue[i].e)
              /\ f.queue[j].e \in CleanupQuery(f.pre)
        /\ ~panicked

\* C7: once flushed, despawn(e) has removed e and left every descendant of e
\* that was in the world there; despawn_recursive(e) has removed e and every
\* entity of its subtree.
C7_DespawnVsRecursive ==
    \A f \in flushed : \A x \in f.ran :
        /\ x.sys = "despawn"
              => /\ x.e \notin alive
                 /\ \A d \in Descendants(f.pre, x.e) : d \in f.pre.alive => d \in alive
                 /\ alive = f.pre.alive \ {x.e}
        /\ x.sys = "despawn_recursive"
              => /\ \A d \in Subtree(f.pre, x.e) : d \notin alive
                 /\ alive = f.pre.alive \ Subtree(f.pre, x.e)

\* C7 witness: despawn of an entity with a child and a grandchild, both
\* still in the world afterwards
C7_Witness ==
    \E f \in flushed : \E x \in f.ran :
        /\ x.sys = "despawn"
        /\ \E k \in f.pre.children[x.e] : \E g \in f.pre.children[k] :
              {k, g} \subseteq alive
        /\ x.e \notin alive

\* the original components of the survivors of a flush
SurvivorsKeep(f) ==
    \A e \in alive : comps[e] = f.pre.comps[e] /\ parent[e] = f.pre.parent[e]

\* C10 as stated: one cleanup run and the flush remove only the matched
\* entities and their subtrees; every other entity is still there with all
\* its components, the Children component included, as they were, and no
\* resource has changed.
C10_Original ==
    \A f \in flushed :
        RanSystem(f, "entity_cleanup_system")
            => /\ alive = f.pre.alive \ CleanupGone(f.pre)
               /\ SurvivorsKeep(f)
               /\ \A e \in alive : children[e] = f.pre.children[e]
               /\ res = f.pre.res

\* C10 as amended: ... every other entity is still there with its components
\* as they were, except that the Children component of the parent of a
\* matched entity no longer lists that entity; no resource has changed.
C10_OnlyMatchedSubtreesRemoved ==
    \A f \in flushed :
        RanSystem(f, "entity_cleanup_system")
            => /\ alive = f.pre.alive \ CleanupGone(f.pre)
               /\ SurvivorsKeep(f)
               /\ \A e \in alive :
                     children[e] = f.pre.children[e] \ CleanupQuery(f.pre)
               /\ res = f.pre.res

\* C10 witness: a run that removed a matched entity and an unmatched
\* descendant of it, and left the matched entity's parent, which carries C
\* but not F
C10_Witness ==
    \E f \in flushed :
        /\ RanSystem(f, "entity_cleanup_system")
        /\ \E m \in CleanupQuery(f.pre) :
              /\ Descendants(f.pre, m) \ CleanupQuery(f.pre) # {}
              /\ Descendants(f.pre, m) \cap alive = {}
              /\ \E p \in f.pre.parent[m] :
                    /\ p \in alive /\ Types(comps[p]) = {"C"}
                    /\ m \in f.pre.children[p] /\ m \notin children[p]

\* C8: once the commands are applied (the flush went through), the entity of
\* spawn_default_with(b) has exactly C::default() and the components of b,
\* and the entity of spawn_default() has exactly C::default().  The flush
\* goes through for every bundle that repeats no component type; the host
\* panics on one that does, and then no command has been applied.
C8_SpawnDefaultExact ==
    \A f \in flushed : \A x \in f.ran :
        /\ (x.sys = "spawn_default_with" /\ ~panicked)
              => /\ x.e \in alive
                 /\ comps[x.e] = {CDefault} \cup BundleSet(x.b)
        /\ x.sys = "spawn_default"
              => /\ ~panicked
                 /\ x.e \in alive
                 /\ comps[x.e] = {CDefault}
        /\ (x.sys = "spawn_default_with" /\ ~HasDuplicates(<<CDefault>> \o x.b))
              => ~panicked

\* C8 witness: spawn_default_with a two-component bundle, flushed
C8_Witness ==
    \E f \in flushed : \E x \in f.ran :
        /\ x.sys = "spawn_default_with" /\ Len(x.b) = 2 /\ ~panicked
        /\ x.e \in alive /\ Cardinality(comps[x.e]) = 3

SpawnSystems == {"spawn", "spawn_with", "spawn_default", "spawn_default_with"}
Spawned == {e \in Entities : requested[e] # {}}

\* C9: an entity requested through EntitySpawner is matched by no query
\* before the next flush; from that flush on, until it is despawned, it is in
\* the world with the components requested, so matched by the queries for them.
C9_QueryableAfterFlush ==
    /\ \A x \in ran :
          x.sys \in SpawnSystems
              => /\ x.e \in reserved
                 /\ \A with \in SUBSET Components : x.e \notin Query(World, with)
    /\ \A f \in flushed : \A x \in f.ran :
          (x.sys \in SpawnSystems /\ ~panicked)
              => x.e \in Query(World, Types(requested[x.e]))
    /\ \A e \in Spawned :
          (e \in alive /\ ~panicked)
              => /\ comps[e] = requested[e]
                 /\ e \in Query(World, Types(requested[e]))

\* C9 witness: an entity spawned with spawn_with is still matched after a
\* later flush, which despawned another entity
C9_Witness ==
    \E f \in flushed, e \in Spawned :
        /\ RanSystem(f, "despawn")
        /\ e \in f.pre.alive /\ e \in alive
        /\ Cardinality(comps[e]) = 3
        /\ e \in Query(World, {"C", "F", "B"})

====
